---- MODULE Spec2Model ----
(***************************************************************************)
(* Model of mcp-router: the discovery service (discovery_service.py) that  *)
(* keeps MCP server descriptors in a DashVector collection and resolves a  *)
(* server name to its endpoint through similarity search, and the router   *)
(* (mcp_router.py) whose exec_mcp_tool resolves the endpoint, picks the    *)
(* SSE or the HTTP transport and runs the call.                            *)
(*                                                                         *)
(* External collaborators (the embedding provider, the vector store, the   *)
(* remote services, the caller's cancellation) are nondeterministic: each  *)
(* call may succeed or fail, and the store may rank the documents in any   *)
(* order.  The MockDiscoveryService that replaces the discovery service    *)
(* when its import fails is not modelled.                                  *)
(***************************************************************************)
EXTENDS Integers, Sequences, FiniteSets, TLC

VARIABLES
    registry,   \* the collection's documents whose id is one of Ids: id -> fields
    others,     \* how many further documents (other ids) the collection holds
    lastReg,    \* the add_server call that has just ended: arguments and outcome
    res,        \* the get_server_endpoint call that has just ended, called on its own
    haveSse,    \* HAVE_SSE_SUPPORT, fixed when the module is imported
    inv,        \* the exec_mcp_tool invocations: slot -> state of the coroutine
    boot,       \* the backing collection and the last DiscoveryService() startup
    call        \* the search_mcp_server / add_mcp_server call that has just ended

vars == <<registry, others, lastReg, res, haveSse, inv, boot, call>>

(***************************************************************************)
(* Bounds and inputs                                                       *)
(***************************************************************************)
\* Largest number of documents with ids outside Ids.
MaxOthers == 101

\* top_k of the two probes of get_server_endpoint.
NarrowK == 20
BroadK == 100

\* The server names followed one by one; the collection may hold documents
\* under other names too (others).
Ids == {"svc-a", "svc-b"}

\* The tasks that run exec_mcp_tool.
Invs == {"t1"}

\* The tasks of the runs with invocations in flight at the same time.
Tasks == {"t1", "t2"}

\* Endpoints are strings, modelled as sequences of characters.
EpHttp == <<"e", "s", "s">>
EpSse == <<"/", "s", "s", "e">>
EpSseUpper == <<"S", "s", "E", "/">>

Endpoints == {EpHttp, EpSse, EpSseUpper}

\* The descriptors a caller registers: (description, endpoint, tools).
Descriptors ==
    { [server_description |-> "weather", server_endpoint |-> EpHttp, tools |-> "[]"],
      [server_description |-> "maps", server_endpoint |-> EpSse, tools |-> "[t]"],
      [server_description |-> "weather", server_endpoint |-> EpSseUpper, tools |-> "[t]"] }

\* What callers pass to search_mcp_server and add_mcp_server.
Queries == {"weather"}
TopKs == {-1, 0, 1, 3}
ToolLists == {<< >>, <<"t">>, <<"obj">>}

\* A descriptor stored through add_server directly, with a tools string that
\* is not JSON.
MalformedDescriptor ==
    [server_description |-> "maps", server_endpoint |-> EpSse, tools |-> "[t"]

Min(a, b) == IF a < b THEN a ELSE b

Range(s) == { s[k] : k \in DOMAIN s }

(***************************************************************************)
(* discovery_service.py: DiscoveryService                                  *)
(***************************************************************************)
\* _generate_embedding: the provider answers 200 with the vector, or the call
\* raises "Failed to generate embedding".  The vector itself is not modelled:
\* it only decides the store's ranking, which is left open below.
generate_embedding(text) == {"ok", "EmbeddingFailure"}

\* collection.insert(Doc(id=...)): DashVector's insert adds a document under a
\* new id and leaves an existing document with that id as it is (overwriting
\* is what upsert does); for an existing id the response may be truthy or
\* falsy.  A store failure changes nothing and answers falsy.
collection_insert(reg, id, fields) ==
    LET added == [x \in DOMAIN reg \cup {id} |-> IF x = id THEN fields ELSE reg[x]]
    IN  {[reg |-> reg, rsp |-> FALSE, fault |-> "store"]}
        \cup
        (IF id \in DOMAIN reg
         THEN {[reg |-> reg, rsp |-> b, fault |-> "none"] : b \in BOOLEAN}
         ELSE {[reg |-> added, rsp |-> TRUE, fault |-> "none"]})

\* The insert before the embedding: a document is stored even when the
\* embedding then fails.
add_server_insert_first(reg, server_name, fields) ==
    { [reg |-> i.reg,
       status |-> IF ~i.rsp THEN "StoreWriteFailure"
                  ELSE IF e = "ok" THEN "success" ELSE e,
       fault |-> IF ~i.rsp \/ e = "ok" THEN i.fault ELSE "embedding"] :
         i \in collection_insert(reg, server_name, fields),
         e \in generate_embedding(fields.server_description) }

\* add_server: the embedding of the description first, then the insert; a
\* falsy response raises "Failed to insert server".
add_server(reg, server_name, fields) ==
    LET failed == { [reg |-> reg, status |-> e, fault |-> "embedding"] :
                      e \in generate_embedding(fields.server_description) \ {"ok"} }
        stored == { [reg |-> i.reg,
                     status |-> IF i.rsp THEN "success" ELSE "StoreWriteFailure",
                     fault |-> i.fault] :
                      i \in collection_insert(reg, server_name, fields) }
    IN  failed \cup
        (IF "ok" \in generate_embedding(fields.server_description) THEN stored ELSE {})

\* collection.query(vector, topk): the topk nearest documents, fewer when the
\* collection is smaller.  The ranking is the store's; any choice of documents
\* of that size is possible.  hits is the part of the answer with ids in Ids,
\* the rest of the answer being among the `oth` other documents.
collection_query(reg, oth, top_k) ==
    LET total == Cardinality(DOMAIN reg) + oth
        n == Min(top_k, total)
    IN  IF top_k < 1 THEN {}
        ELSE { S \in SUBSET DOMAIN reg :
                 Cardinality(S) <= n /\ n - Cardinality(S) <= oth }

\* search_server: embed the query, query the store, turn the documents into
\* result dicts.  The results are a list ordered by score; ids are unique, so
\* the exact-name lookups below do not depend on the order and a set is kept.
search_server(reg, oth, query, top_k) ==
    LET docs(S) == { [server_name |-> id,
                      server_description |-> reg[id].server_description,
                      server_endpoint |-> reg[id].server_endpoint,
                      tools |-> reg[id].tools] : id \in S }
    IN  { [status |-> e, results |-> {}] : e \in generate_embedding(query) \ {"ok"} }
        \cup
        (IF "ok" \in generate_embedding(query)
         THEN {[status |-> "StoreQueryFailure", results |-> {}]}
              \cup { [status |-> "ok", results |-> docs(S)] :
                       S \in collection_query(reg, oth, top_k) }
         ELSE {})

\* A lookup that takes any result of the search for a match.
ExactMatchAny(results, server_name) == results

\* The loop `for result in results: if result["server_name"] == server_name`.
ExactMatch(results, server_name) == { r \in results : r.server_name = server_name }

NoEndpoint == << >>

\* What get_server_endpoint raises when a probe raised: the except clause
\* swallows the probe's exception and the function ends in
\* raise Exception("Server ... not found").
SwallowProbeFailure(status) == "NotFound"

\* The broad probe is issued but its results are not searched.
ResolveFromBroadUnused(server_name, n, b) ==
    IF n.status # "ok"
    THEN [probes |-> 1, raised |-> SwallowProbeFailure(n.status), endpoint |-> NoEndpoint]
    ELSE IF ExactMatch(n.results, server_name) # {}
    THEN [probes |-> 1, raised |-> "none",
          endpoint |-> (CHOOSE r \in ExactMatch(n.results, server_name) : TRUE).server_endpoint]
    ELSE IF b.status # "ok"
    THEN [probes |-> 2, raised |-> SwallowProbeFailure(b.status), endpoint |-> NoEndpoint]
    ELSE [probes |-> 2, raised |-> "NotFound", endpoint |-> NoEndpoint]

\* get_server_endpoint on the answers n and b of the narrow and the broad
\* probe; probes tells how many of the two searches were issued (the broad one
\* only after the narrow one returned without an exact match).
ResolveFrom(server_name, n, b) ==
    IF n.status # "ok"
    THEN [probes |-> 1, raised |-> SwallowProbeFailure(n.status), endpoint |-> NoEndpoint]
    ELSE IF ExactMatch(n.results, server_name) # {}
    THEN [probes |-> 1, raised |-> "none",
          endpoint |-> (CHOOSE r \in ExactMatch(n.results, server_name) : TRUE).server_endpoint]
    ELSE IF b.status # "ok"
    THEN [probes |-> 2, raised |-> SwallowProbeFailure(b.status), endpoint |-> NoEndpoint]
    ELSE IF ExactMatch(b.results, server_name) # {}
    THEN [probes |-> 2, raised |-> "none",
          endpoint |-> (CHOOSE r \in ExactMatch(b.results, server_name) : TRUE).server_endpoint]
    ELSE [probes |-> 2, raised |-> "NotFound", endpoint |-> NoEndpoint]

ServerNames(results) == { r.server_name : r \in results }

\* get_server_endpoint: every way the call can end in the given collection,
\* with what each probe answered: its status ("none" for a probe that was not
\* issued) and the server names in its results.
get_server_endpoint(reg, oth, server_name) ==
    { LET out == ResolveFrom(server_name, n, b)
      IN  [narrow |-> n.status, narrowIds |-> ServerNames(n.results),
           broad |-> IF out.probes = 2 THEN b.status ELSE "none",
           broadIds |-> IF out.probes = 2 THEN ServerNames(b.results) ELSE {},
           raised |-> out.raised, endpoint |-> out.endpoint] :
        n \in search_server(reg, oth, server_name, NarrowK),
        b \in search_server(reg, oth, "", BroadK) }

\* The remote calls search_server has made when it ends with `status`: the
\* embedding request is its first statement, the store query follows it.
search_server_calls(status) ==
    [embedded |-> TRUE, queried |-> status # "EmbeddingFailure"]

\* client.get(name): the handle of the collection, a truthy object.  For a
\* collection that is not there, or when the store cannot be reached, the
\* client either raises or returns an object that is falsy (DashVector
\* reports a failed request in the object it returns); startup handles both.
client_get(exists) ==
    (IF exists THEN {"handle"} ELSE {}) \cup {"falsy", "raise"}

\* client.create(name, dimension): creates the collection when it is not
\* there and the store can be reached; the response is falsy otherwise.
client_create(exists) ==
    IF exists THEN {[rsp |-> FALSE, exists |-> TRUE]}
    ELSE {[rsp |-> TRUE, exists |-> TRUE], [rsp |-> FALSE, exists |-> FALSE]}

\* DiscoveryService.__init__: client.get inside try; only when it raises,
\* client.create, whose falsy response raises at once, then client.get again,
\* whose falsy answer raises.  The handle of the first get is kept unchecked.
discovery_init(exists) ==
    LET with(status, handle, ex, called, ok, checked) ==
            [exists |-> ex, status |-> status, handle |-> handle, found |-> exists,
             createCalled |-> called, createOk |-> ok, checked |-> checked]
        second == { IF g = "handle" THEN with("ok", "usable", TRUE, TRUE, TRUE, TRUE)
                    ELSE with("StoreInitFailure", "none", TRUE, TRUE, TRUE, TRUE) :
                      g \in client_get(TRUE) }
        creation == UNION { IF c.rsp THEN second
                            ELSE {with("StoreInitFailure", "none", c.exists, TRUE, FALSE, FALSE)} :
                              c \in client_create(exists) }
    IN  UNION { IF g = "handle" THEN {with("ok", "usable", exists, FALSE, FALSE, FALSE)}
                ELSE IF g = "falsy"
                THEN {with("ok", "unusable", exists, FALSE, FALSE, FALSE)}
                ELSE creation :
                  g \in client_get(exists) }

\* The calls a service can make on the handle it holds: with a handle that is
\* not usable no store call ends in `good`.
WithHandle(handle, outcomes, good) ==
    { o \in outcomes : handle = "usable" \/ o.status # good }

(***************************************************************************)
(* State                                                                   *)
(***************************************************************************)
NoFields == [server_description |-> "", server_endpoint |-> NoEndpoint, tools |-> ""]

NoReg == [id |-> "none", fields |-> NoFields, status |-> "none", fault |-> "none"]

\* justAdded: the endpoint registered for the target by a successful add_server
\* right before the call, NoEndpoint when no such call came right before it.
NoRes == [target |-> "none", narrow |-> "none", narrowIds |-> {},
          broad |-> "none", broadIds |-> {},
          raised |-> "none", endpoint |-> NoEndpoint, justAdded |-> NoEndpoint]

\* No caller-facing search or register call has ended yet.
NoCall == [op |-> "none", top_k |-> 3, embedded |-> FALSE, queried |-> FALSE,
           outcome |-> "none", result |-> "none", err |-> "none"]

\* boot: exists tells whether the store holds the collection; the other
\* fields describe the last startup: how it ended, the handle it kept, whether
\* the collection was there before it, and what it did on the creation path.
NoBoot == [exists |-> FALSE, status |-> "none", handle |-> "none", found |-> FALSE,
           createCalled |-> FALSE, createOk |-> FALSE, checked |-> FALSE]

\* A service that started on an existing collection and holds its handle.
Started == [NoBoot EXCEPT !.exists = TRUE, !.status = "ok", !.handle = "usable",
                          !.found = TRUE]

InitRegistry ==
    /\ registry = << >>
    /\ others = 0
    /\ lastReg = NoReg
    /\ res = NoRes
    /\ boot = Started
    /\ call = NoCall

(***************************************************************************)
(* Registry operations                                                     *)
(***************************************************************************)
\* discovery_service.add_server(server_name, ...) for a name in Ids.
AddServer(id, fields) ==
    /\ boot.status = "ok"
    /\ \E o \in WithHandle(boot.handle, add_server(registry, id, fields), "success") :
        /\ registry' = o.reg
        /\ lastReg' = [id |-> id, fields |-> fields, status |-> o.status, fault |-> o.fault]
        /\ res' = NoRes
        /\ call' = NoCall
        /\ UNCHANGED <<others, haveSse, inv, boot>>

\* A successful add_server of a name outside Ids, not yet in the collection.
AddOtherServer ==
    /\ others < MaxOthers
    /\ others' = others + 1
    /\ lastReg' = NoReg
    /\ res' = NoRes
    /\ UNCHANGED <<registry, haveSse, inv, boot, call>>

\* discovery_service.get_server_endpoint(server_name), called on its own.
ResolveEndpoint(server_name) ==
    \E o \in get_server_endpoint(registry, others, server_name) :
        /\ res' = [target |-> server_name,
                   narrow |-> o.narrow, narrowIds |-> o.narrowIds,
                   broad |-> o.broad, broadIds |-> o.broadIds,
                   raised |-> o.raised, endpoint |-> o.endpoint,
                   justAdded |-> IF lastReg.id = server_name /\ lastReg.status = "success"
                                 THEN lastReg.fields.server_endpoint
                                 ELSE NoEndpoint]
        /\ lastReg' = NoReg
        /\ UNCHANGED <<registry, others, haveSse, inv, boot, call>>

(***************************************************************************)
(* mcp_router.py: exec_mcp_tool and the two transports                     *)
(***************************************************************************)
\* str.lower() on the characters the endpoints are made of.
LowerChar(c) ==
    CASE c = "S" -> "s"
      [] c = "E" -> "e"
      [] OTHER -> c

Lower(s) == [k \in DOMAIN s |-> LowerChar(s[k])]

\* The `in` operator on strings: sub occurs in s as a substring.
Contains(sub, s) ==
    \E k \in 1..(Len(s) - Len(sub) + 1) : SubSeq(s, k, k + Len(sub) - 1) = sub

\* The test without .lower().
SelectTransportCaseSensitive(target_endpoint, have_sse) ==
    IF Contains(<<"s", "s", "e">>, target_endpoint) /\ have_sse
    THEN "sse"
    ELSE "http"

\* `if "sse" in target_endpoint.lower() and HAVE_SSE_SUPPORT` ... else.
SelectTransport(target_endpoint, have_sse) ==
    IF Contains(<<"s", "s", "e">>, Lower(target_endpoint)) /\ have_sse
    THEN "sse"
    ELSE "http"

\* A dispatcher that catches the HTTP transport's errors only.
IsExceptionHttpOnly(kind) == kind \in {"TransportFailure", "MalformedResponse"}

\* `except Exception` of exec_mcp_tool: every failure of the model is an
\* Exception except the cancellation of the task, asyncio.CancelledError,
\* which derives from BaseException.
IsException(kind) == kind # "CancelledError"

\* How exec_mcp_tool ends once its body ended with `outcome`: "success" is the
\* transport's return value, anything else the exception that reached the
\* try block.  A caught exception becomes the payload {"error": str(e)}.
Boundary(outcome) ==
    IF outcome = "success" THEN [result |-> "success", err |-> "none"]
    ELSE IF IsException(outcome) THEN [result |-> "error", err |-> outcome]
    ELSE [result |-> "raised", err |-> outcome]

\* Callbacks called first in, first out.
PopReleaseFifo(stack) ==
    [what |-> stack[1], rest |-> SubSeq(stack, 2, Len(stack))]

\* exit_stack.aclose() calls the exit callbacks last in, first out: the
\* resource whose callback runs next, and the stack without it.
PopRelease(stack) ==
    [what |-> stack[Len(stack)], rest |-> SubSeq(stack, 1, Len(stack) - 1)]

NoInv == [pc |-> "idle", target |-> "none", narrow |-> "none", broad |-> "none",
          endpoint |-> NoEndpoint, transport |-> "none", stack |-> << >>,
          stream |-> "none", session |-> "none", client |-> "none",
          initialized |-> FALSE, called |-> FALSE,
          pending |-> "none", cancelAt |-> "none",
          result |-> "none", err |-> "none",
          log |-> << >>, failedAt |-> 0, postedTo |-> NoEndpoint]

\* log is the sequence of the remote actions the invocation has started, in
\* order: the searches of get_server_endpoint, the steps of the transport and
\* the releases.  Did(r, step) adds one.
Did(r, step) == [r EXCEPT !.log = Append(@, step)]

\* The statement that was running ended with `outcome`.  failedAt keeps the
\* length of the log at the first exception (a failure or a cancellation);
\* 0 while there was none.
Pend(r, outcome) ==
    [r EXCEPT !.pending = outcome,
              !.failedAt = IF outcome # "success" /\ @ = 0 THEN Len(r.log) ELSE @]

\* The coroutine returns or raises: exec_mcp_tool's try/except decides what
\* the caller sees.
Complete(r, outcome) ==
    [Pend(r, outcome) EXCEPT !.pc = "done",
                             !.result = Boundary(outcome).result,
                             !.err = Boundary(outcome).err]

\* The cleanup as the last statement of the try block instead of a finally
\* clause: it runs on success only.
SseNoFinally(r, outcome) ==
    IF r.stack = << >> \/ outcome # "success" THEN Complete(r, outcome)
    ELSE [Pend(r, outcome) EXCEPT !.pc = "sse_cleanup"]

\* _execute_sse_tool leaves its try block with `outcome` and runs
\* `finally: await exit_stack.aclose()`; with nothing on the stack aclose
\* returns without suspending.
SseFinally(r, outcome) ==
    IF r.stack = << >> THEN Complete(r, outcome)
    ELSE [Pend(r, outcome) EXCEPT !.pc = "sse_cleanup"]

\* One exit callback of aclose has run (or was interrupted): `status` is the
\* state it left the resource in, `outcome` what is pending afterwards.
Released(r, status, outcome) ==
    LET pop == PopRelease(r.stack)
        step == IF pop.what = "session" THEN "release_session" ELSE "release_stream"
        r1 == [Did(r, step) EXCEPT !.stack = pop.rest, ![pop.what] = status]
    IN  IF r1.stack = << >> THEN Complete(r1, outcome)
        ELSE Pend(r1, outcome)

\* The searches get_server_endpoint issued, as log entries.
ProbeLog(o) == IF o.broad = "none" THEN <<"narrow">> ELSE <<"narrow", "broad">>

\* The remote action an await of the transports is suspended in.
StepOf(pc) ==
    CASE pc = "sse_open" -> "stream_open"
      [] pc = "sse_enter" -> "session_enter"
      [] pc = "sse_init" -> "initialize"
      [] pc = "sse_call" -> "call_tool"
      [] pc = "http_post" -> "post"
      [] pc = "http_close" -> "client_close"

InitRouter ==
    /\ haveSse \in BOOLEAN
    /\ inv = [i \in Invs |-> NoInv]

\* A resolution failure answered by posting to a default (empty) endpoint.
InvokeDefaultEndpoint(i, target) ==
    /\ inv[i].pc \in {"idle", "done"}
    /\ \E o \in get_server_endpoint(registry, others, target) :
         LET r0 == [NoInv EXCEPT !.target = target, !.narrow = o.narrow,
                                 !.broad = o.broad, !.endpoint = o.endpoint,
                                 !.log = ProbeLog(o)]
             tr == SelectTransport(o.endpoint, haveSse)
         IN  inv' = [inv EXCEPT ![i] =
                 IF tr = "sse"
                 THEN [r0 EXCEPT !.transport = "sse", !.pc = "sse_open"]
                 ELSE [r0 EXCEPT !.transport = "http", !.client = "open",
                                 !.pc = "http_post"]]
    /\ UNCHANGED <<registry, others, lastReg, res, haveSse, boot, call>>

\* exec_mcp_tool up to its first suspension: get_server_endpoint (a blocking
\* call), the choice of the transport, and the transport's first await.
Invoke(i, target) ==
    /\ inv[i].pc \in {"idle", "done"}
    /\ \E o \in get_server_endpoint(registry, others, target) :
         LET r0 == [NoInv EXCEPT !.target = target, !.narrow = o.narrow,
                                 !.broad = o.broad, !.endpoint = o.endpoint,
                                 !.log = ProbeLog(o)]
             tr == SelectTransport(o.endpoint, haveSse)
         IN  inv' = [inv EXCEPT ![i] =
                 IF o.raised # "none" THEN Complete(r0, o.raised)
                 ELSE IF tr = "sse"
                 THEN [r0 EXCEPT !.transport = "sse", !.pc = "sse_open"]
                 ELSE [r0 EXCEPT !.transport = "http", !.client = "open",
                                 !.pc = "http_post"]]
    /\ UNCHANGED <<registry, others, lastReg, res, haveSse, boot, call>>

\* await exit_stack.enter_async_context(sse_cm)
SseOpenStream(i) ==
    /\ inv[i].pc = "sse_open"
    /\ \/ inv' = [inv EXCEPT ![i] = [Did(@, "stream_open") EXCEPT
                                              !.stream = "open",
                                              !.stack = Append(@, "stream"),
                                              !.pc = "sse_enter"]]
       \/ inv' = [inv EXCEPT ![i] = SseFinally(Did(@, "stream_open"), "StreamOpenFailure")]
    /\ UNCHANGED <<registry, others, lastReg, res, haveSse, boot, call>>

\* await exit_stack.enter_async_context(session_cm)
SseEnterSession(i) ==
    /\ inv[i].pc = "sse_enter"
    /\ \/ inv' = [inv EXCEPT ![i] = [Did(@, "session_enter") EXCEPT
                                              !.session = "open",
                                              !.stack = Append(@, "session"),
                                              !.pc = "sse_init"]]
       \/ inv' = [inv EXCEPT ![i] = SseFinally(Did(@, "session_enter"), "SessionFailure")]
    /\ UNCHANGED <<registry, others, lastReg, res, haveSse, boot, call>>

\* A failed handshake that is ignored: the tool is called all the same.
SseInitializeIgnored(i) ==
    /\ inv[i].pc = "sse_init"
    /\ \/ inv' = [inv EXCEPT ![i] = [Did(@, "initialize") EXCEPT
                                              !.initialized = TRUE, !.pc = "sse_call"]]
       \/ inv' = [inv EXCEPT ![i] = [Did(@, "initialize") EXCEPT !.pc = "sse_call"]]
    /\ UNCHANGED <<registry, others, lastReg, res, haveSse, boot, call>>

\* await session.initialize()
SseInitialize(i) ==
    /\ inv[i].pc = "sse_init"
    /\ \/ inv' = [inv EXCEPT ![i] = [Did(@, "initialize") EXCEPT
                                              !.initialized = TRUE, !.pc = "sse_call"]]
       \/ inv' = [inv EXCEPT ![i] = SseFinally(Did(@, "initialize"), "HandshakeFailure")]
    /\ UNCHANGED <<registry, others, lastReg, res, haveSse, boot, call>>

\* A failed call that falls back to the HTTP transport.
SseCallToolFallback(i) ==
    /\ inv[i].pc = "sse_call"
    /\ \/ inv' = [inv EXCEPT ![i] =
                    SseFinally([Did(@, "call_tool") EXCEPT !.called = TRUE], "success")]
       \/ inv' = [inv EXCEPT ![i] =
                    [Pend(Did(@, "call_tool"), "CallFailure") EXCEPT
                         !.called = TRUE, !.client = "open", !.pc = "http_post"]]
    /\ UNCHANGED <<registry, others, lastReg, res, haveSse, boot, call>>

\* await session.call_tool(tool_name, parameters), and the return statement
SseCallTool(i) ==
    /\ inv[i].pc = "sse_call"
    /\ \/ inv' = [inv EXCEPT ![i] =
                    SseFinally([Did(@, "call_tool") EXCEPT !.called = TRUE], "success")]
       \/ inv' = [inv EXCEPT ![i] =
                    SseFinally([Did(@, "call_tool") EXCEPT !.called = TRUE], "CallFailure")]
    /\ UNCHANGED <<registry, others, lastReg, res, haveSse, boot, call>>

\* One exit stack for the whole module instead of one per call: a release
\* closes the streams and sessions of every invocation.
SseReleaseShared(i) ==
    /\ inv[i].pc = "sse_cleanup"
    /\ inv' = [j \in DOMAIN inv |->
                 IF j = i THEN Released(inv[i], "closed", inv[i].pending)
                 ELSE [inv[j] EXCEPT
                         !.stream = IF @ = "open" THEN "closed" ELSE @,
                         !.session = IF @ = "open" THEN "closed" ELSE @]]
    /\ UNCHANGED <<registry, others, lastReg, res, haveSse, boot, call>>

\* One exit callback of exit_stack.aclose() runs to its end.
SseRelease(i) ==
    /\ inv[i].pc = "sse_cleanup"
    /\ inv' = [inv EXCEPT ![i] = Released(@, "closed", @.pending)]
    /\ UNCHANGED <<registry, others, lastReg, res, haveSse, boot, call>>

\* await client.post(...), response.json() and the return statement
HttpPost(i) ==
    /\ inv[i].pc = "http_post"
    /\ \E outcome \in {"success", "TransportFailure", "MalformedResponse"} :
         inv' = [inv EXCEPT ![i] =
                   [Pend(Did(@, "post"), outcome) EXCEPT !.called = TRUE,
                                                         !.postedTo = inv[i].endpoint,
                                                         !.pc = "http_close"]]
    /\ UNCHANGED <<registry, others, lastReg, res, haveSse, boot, call>>

\* A client created without `async with`: nothing closes it.
HttpCloseLeak(i) ==
    /\ inv[i].pc = "http_close"
    /\ inv' = [inv EXCEPT ![i] = Complete(@, @.pending)]
    /\ UNCHANGED <<registry, others, lastReg, res, haveSse, boot, call>>

\* The end of `async with httpx.AsyncClient() as client`.
HttpClose(i) ==
    /\ inv[i].pc = "http_close"
    /\ inv' = [inv EXCEPT ![i] =
                 Complete([Did(@, "client_close") EXCEPT !.client = "closed"], @.pending)]
    /\ UNCHANGED <<registry, others, lastReg, res, haveSse, boot, call>>

\* The caller cancels the task (or its timeout does): CancelledError is
\* raised at the await the coroutine is suspended in.  In the try block of
\* _execute_sse_tool that leads to the finally clause.  Inside aclose() the
\* exit callback that was running is interrupted, aclose goes on with the
\* next callback and raises CancelledError at its end; nothing in the code
\* shields the release, so whether the interrupted callback had released its
\* resource is open.  The same holds for the exit of the HTTP client.
Cancel(i) ==
    /\ \/ /\ inv[i].pc \in {"sse_open", "sse_enter", "sse_init", "sse_call"}
          /\ inv' = [inv EXCEPT ![i] =
                       SseFinally([Did(@, StepOf(@.pc)) EXCEPT !.cancelAt = "body"],
                                  "CancelledError")]
       \/ /\ inv[i].pc = "sse_cleanup"
          /\ \E status \in {"open", "closed"} :
               inv' = [inv EXCEPT ![i] =
                         Released([@ EXCEPT !.cancelAt = "cleanup"], status,
                                  "CancelledError")]
       \/ /\ inv[i].pc = "http_post"
          /\ inv' = [inv EXCEPT ![i] =
                       [Pend(Did(@, "post"), "CancelledError") EXCEPT
                            !.cancelAt = "body", !.postedTo = inv[i].endpoint,
                            !.pc = "http_close"]]
       \/ /\ inv[i].pc = "http_close"
          /\ \E status \in {"open", "closed"} :
               inv' = [inv EXCEPT ![i] =
                         Complete([Did(@, "client_close") EXCEPT
                                       !.cancelAt = "cleanup", !.client = status],
                                  "CancelledError")]
    /\ UNCHANGED <<registry, others, lastReg, res, haveSse, boot, call>>

\* json.dumps(tools): the JSON text of the list; an object json cannot
\* serialise raises TypeError.
json_dumps(tools) ==
    CASE tools = << >> -> [ok |-> TRUE, text |-> "[]"]
      [] tools = <<"t">> -> [ok |-> TRUE, text |-> "[t]"]
      [] OTHER -> [ok |-> FALSE, text |-> ""]

\* json.loads(text): the list the text stands for; a text that is not JSON
\* raises JSONDecodeError.
json_loads(text) ==
    CASE text = "[]" -> [ok |-> TRUE, value |-> << >>]
      [] text = "[t]" -> [ok |-> TRUE, value |-> <<"t">>]
      [] OTHER -> [ok |-> FALSE, value |-> << >>]

\* A boundary that turns the failures of the discovery service into a
\* payload and lets the others (those of json) through.
CallerBoundaryServiceOnly(outcome) ==
    IF outcome = "success" THEN [result |-> "payload", err |-> "none"]
    ELSE IF outcome \in {"EmbeddingFailure", "StoreQueryFailure", "StoreWriteFailure"}
    THEN [result |-> "error", err |-> outcome]
    ELSE [result |-> "raised", err |-> outcome]

\* try ... except Exception as e: return json.dumps({"error": str(e)}) of
\* search_mcp_server and add_mcp_server.
CallerBoundary(outcome) ==
    IF outcome = "success" THEN [result |-> "payload", err |-> "none"]
    ELSE IF IsException(outcome) THEN [result |-> "error", err |-> outcome]
    ELSE [result |-> "raised", err |-> outcome]

\* The body of search_mcp_server's try block: search_server, then json.loads
\* of the tools of every result.
search_mcp_server(reg, oth, handle, query, top_k) ==
    { LET bad == { r \in o.results : ~json_loads(r.tools).ok }
      IN  [calls |-> search_server_calls(o.status),
           outcome |-> IF o.status # "ok" THEN o.status
                       ELSE IF bad # {} THEN "JSONDecodeError"
                       ELSE "success"] :
        o \in WithHandle(handle, search_server(reg, oth, query, top_k), "ok") }

\* The body of add_mcp_server's try block: json.dumps of the tools, then
\* add_server.
add_mcp_server(reg, handle, server_name, server_description, server_endpoint, tools) ==
    LET dumped == json_dumps(tools)
        fields == [server_description |-> server_description,
                   server_endpoint |-> server_endpoint, tools |-> dumped.text]
    IN  IF ~dumped.ok
        THEN {[reg |-> reg, outcome |-> "TypeError", last |-> NoReg]}
        ELSE { [reg |-> o.reg, outcome |-> o.status,
                last |-> [id |-> server_name, fields |-> fields,
                          status |-> o.status, fault |-> o.fault]] :
                 o \in WithHandle(handle, add_server(reg, server_name, fields), "success") }

\* The process starts: discovery_service = DiscoveryService().
Startup ==
    /\ \E o \in discovery_init(boot.exists) : boot' = o
    /\ lastReg' = NoReg
    /\ call' = NoCall
    /\ UNCHANGED <<registry, others, res, haveSse, inv>>

\* The tool search_mcp_server(query, top_k).
SearchMcpServer(query, top_k) ==
    /\ boot.status = "ok"
    /\ \E o \in search_mcp_server(registry, others, boot.handle, query, top_k) :
         call' = [op |-> "search", top_k |-> top_k,
                  embedded |-> o.calls.embedded, queried |-> o.calls.queried,
                  outcome |-> o.outcome,
                  result |-> CallerBoundary(o.outcome).result,
                  err |-> CallerBoundary(o.outcome).err]
    /\ lastReg' = NoReg
    /\ UNCHANGED <<registry, others, res, haveSse, inv, boot>>

\* The tool add_mcp_server(server_name, server_description, server_endpoint,
\* tools).
AddMcpServer(server_name, server_description, server_endpoint, tools) ==
    /\ boot.status = "ok"
    /\ \E o \in add_mcp_server(registry, boot.handle, server_name, server_description,
                                server_endpoint, tools) :
         /\ registry' = o.reg
         /\ lastReg' = o.last
         /\ call' = [NoCall EXCEPT !.op = "register", !.outcome = o.outcome,
                                   !.result = CallerBoundary(o.outcome).result,
                                   !.err = CallerBoundary(o.outcome).err]
    /\ UNCHANGED <<others, res, haveSse, inv, boot>>

(***************************************************************************)
(* Specifications                                                          *)
(***************************************************************************)
Init == InitRegistry /\ InitRouter

\* The router: servers are registered and tools are executed on them.
Next ==
    \/ \E id \in Ids, fields \in Descriptors : AddServer(id, fields)
    \/ \E i \in Invs, target \in Ids : Invoke(i, target)
    \/ \E i \in Invs : SseOpenStream(i)
    \/ \E i \in Invs : SseEnterSession(i)
    \/ \E i \in Invs : SseInitialize(i)
    \/ \E i \in Invs : SseCallTool(i)
    \/ \E i \in Invs : SseRelease(i)
    \/ \E i \in Invs : HttpPost(i)
    \/ \E i \in Invs : HttpClose(i)
    \/ \E i \in Invs : Cancel(i)

Spec == Init /\ [][Next]_vars

\* The discovery service alone, with a collection of any size up to
\* MaxOthers + 2 documents.
NextRegistry ==
    \/ \E id \in Ids, fields \in Descriptors : AddServer(id, fields)
    \/ AddOtherServer
    \/ \E server_name \in Ids : ResolveEndpoint(server_name)

\* The router's state plays no part in it.
InitDiscovery ==
    /\ InitRegistry
    /\ haveSse = FALSE
    /\ inv = [i \in Invs |-> NoInv]

SpecRegistry == InitDiscovery /\ [][NextRegistry]_vars

\* Two tasks run exec_mcp_tool on the event loop, on a collection that holds
\* one server of each transport; the steps of the two interleave at the awaits.
InitConcurrent ==
    /\ registry = [id \in Ids |->
                     IF id = "svc-a"
                     THEN [server_description |-> "maps", server_endpoint |-> EpSse,
                           tools |-> "[t]"]
                     ELSE [server_description |-> "weather", server_endpoint |-> EpHttp,
                           tools |-> "[]"]]
    /\ others = 0
    /\ lastReg = NoReg
    /\ res = NoRes
    /\ boot = Started
    /\ call = NoCall
    /\ haveSse \in BOOLEAN
    /\ inv = [i \in Tasks |-> NoInv]

NextConcurrent ==
    \/ \E i \in Tasks, target \in Ids : Invoke(i, target)
    \/ \E i \in Tasks : SseOpenStream(i)
    \/ \E i \in Tasks : SseEnterSession(i)
    \/ \E i \in Tasks : SseInitialize(i)
    \/ \E i \in Tasks : SseCallTool(i)
    \/ \E i \in Tasks : SseRelease(i)
    \/ \E i \in Tasks : HttpPost(i)
    \/ \E i \in Tasks : HttpClose(i)
    \/ \E i \in Tasks : Cancel(i)

SpecConcurrent == InitConcurrent /\ [][NextConcurrent]_vars

\* The service as its host sees it: the process starts (again and again,
\* on a store whose collection is not there at first), and its search and
\* register tools are called; add_server is also called directly, with a tools
\* string that is not JSON.
InitService ==
    /\ registry = << >>
    /\ others = 0
    /\ lastReg = NoReg
    /\ res = NoRes
    /\ boot = NoBoot
    /\ call = NoCall
    /\ haveSse = FALSE
    /\ inv = [i \in Invs |-> NoInv]

NextService ==
    \/ Startup
    \/ \E query \in Queries, top_k \in TopKs : SearchMcpServer(query, top_k)
    \/ \E id \in Ids, ep \in {EpHttp, EpSse}, tools \in ToolLists :
         AddMcpServer(id, "weather", ep, tools)
    \/ \E id \in Ids : AddServer(id, MalformedDescriptor)

SpecService == InitService /\ [][NextService]_vars

(***************************************************************************)
(* Properties                                                              *)
(***************************************************************************)
ProbeFailures == {"EmbeddingFailure", "StoreQueryFailure"}

\* C1: an exec_mcp_tool invocation that was not cancelled ends, whatever
\* failed on its way (embedding, store query, name not found, stream or
\* session not opened, handshake, tool call, network, malformed response), by
\* returning the success payload or the payload {"error": message}; nothing
\* is raised to the caller.
NeverRaises ==
    \A i \in Invs :
        (inv[i].pc = "done" /\ inv[i].cancelAt = "none")
            => /\ inv[i].result \in {"success", "error"}
               /\ (inv[i].result = "error") = (inv[i].err # "none")
               /\ (inv[i].result = "success") = (inv[i].pending = "success")

\* An invocation whose handshake failed has returned an error payload.
NeverRaisesWitness ==
    \E i \in Invs :
        /\ inv[i].pc = "done"
        /\ inv[i].cancelAt = "none"
        /\ inv[i].pending = "HandshakeFailure"
        /\ inv[i].result = "error"

\* C2: round trip: a get_server_endpoint call made right after a successful
\* add_server of the same name, and in which neither probe failed, returns
\* the endpoint that was just registered, whatever the collection holds.
\* (Stated for the calls after which the collection does hold that endpoint
\* under the name.)
RoundTrip ==
    (/\ res.justAdded # NoEndpoint
     /\ registry[res.target].server_endpoint = res.justAdded
     /\ res.narrow \notin ProbeFailures
     /\ res.broad \notin ProbeFailures)
        => (res.raised = "none" /\ res.endpoint = res.justAdded)

\* C3: re-registration is an upsert: after an add_server call that met no
\* embedding or store failure, the collection holds under that name exactly
\* the fields of the call (the collection maps a name to one document, so
\* there is never more than one).
UpsertLatest ==
    (lastReg.id \in Ids /\ lastReg.fault = "none")
        => (lastReg.id \in DOMAIN registry /\ registry[lastReg.id] = lastReg.fields)

\* C4: streaming cleanup on every exit path: when an SSE invocation has
\* ended (by success, by a failure to open the stream or the session, by a
\* failed handshake or tool call, or by a cancellation in the try block) and
\* its cleanup was not itself interrupted, the exit stack is empty and
\* neither the stream nor the session is open.
StreamingCleanup ==
    \A i \in Invs :
        (inv[i].pc = "done" /\ inv[i].transport = "sse" /\ inv[i].cancelAt # "cleanup")
            => /\ inv[i].stack = << >>
               /\ inv[i].stream # "open"
               /\ inv[i].session # "open"

\* The handshake failed after the stream and the session were opened, and
\* both have been closed.
StreamingCleanupWitness ==
    \E i \in Invs :
        /\ inv[i].pc = "done"
        /\ inv[i].pending = "HandshakeFailure"
        /\ inv[i].stream = "closed"
        /\ inv[i].session = "closed"

\* C5: resources are released last in, first out: the stream's exit callback
\* is taken off the exit stack only when the session's is no longer on it.
ReleaseLifo ==
    [][\A i \in Invs :
          ("stream" \in Range(inv[i].stack) /\ "stream" \notin Range(inv'[i].stack))
              => "session" \notin Range(inv[i].stack)]_vars

\* Both were acquired; the session has been released and the stream not yet.
ReleaseLifoWitness ==
    \E i \in Invs :
        /\ inv[i].pc = "sse_cleanup"
        /\ inv[i].session = "closed"
        /\ inv[i].stream = "open"
        /\ inv[i].stack = <<"stream">>

\* C6: cancellation: an SSE invocation that was cancelled at any await,
\* the awaits of the cleanup included, ends with its stream and its session
\* released.
CancelSafeCleanup ==
    \A i \in Invs :
        (inv[i].pc = "done" /\ inv[i].transport = "sse" /\ inv[i].cancelAt # "none")
            => /\ inv[i].stream # "open"
               /\ inv[i].session # "open"

\* The streaming marker, read off the characters: s, s, e in a row, in
\* either case.
HasStreamingMarker(ep) ==
    \E k \in 1..(Len(ep) - 2) :
        /\ ep[k] \in {"s", "S"}
        /\ ep[k + 1] \in {"s", "S"}
        /\ ep[k + 2] \in {"e", "E"}

SseSteps == {"sse_open", "sse_enter", "sse_init", "sse_call", "sse_cleanup"}

HttpSteps == {"http_post", "http_close"}

\* C7: transport selection: an invocation runs the SSE transport exactly
\* when its resolved endpoint carries the streaming marker and SSE support
\* is available, and the HTTP transport in every other case; an invocation
\* whose endpoint was resolved runs one of the two and never both.
TransportSelection ==
    \A i \in Invs :
        LET r == inv[i]
            usesSse == r.pc \in SseSteps \/ r.stream # "none" \/ r.session # "none"
                       \/ r.transport = "sse"
            usesHttp == r.pc \in HttpSteps \/ r.client # "none" \/ r.transport = "http"
        IN  /\ usesSse => (HasStreamingMarker(r.endpoint) /\ haveSse)
            /\ usesHttp => ~(HasStreamingMarker(r.endpoint) /\ haveSse)
            /\ ~(usesSse /\ usesHttp)
            /\ (r.endpoint # NoEndpoint) => (usesSse \/ usesHttp)

\* The tool was called over SSE on an endpoint whose marker is in upper case.
TransportSelectionWitness ==
    \E i \in Invs :
        /\ inv[i].endpoint = EpSseUpper
        /\ inv[i].transport = "sse"
        /\ inv[i].called
        /\ inv[i].result = "success"

\* C8: resolution fallback: when the narrow probe answered without the
\* target's name and the broad probe answered with it, get_server_endpoint
\* returns the endpoint stored under that name.
ResolutionFallback ==
    (/\ res.target \in Ids
     /\ res.narrow = "ok" /\ res.target \notin res.narrowIds
     /\ res.broad = "ok" /\ res.target \in res.broadIds)
        => /\ res.raised = "none"
           /\ res.endpoint = registry[res.target].server_endpoint

\* A collection of more than NarrowK documents in which the narrow probe
\* missed the target and the broad probe found it.
ResolutionFallbackWitness ==
    /\ res.target \in DOMAIN registry
    /\ Cardinality(DOMAIN registry) + others > NarrowK
    /\ res.narrow = "ok" /\ res.target \notin res.narrowIds
    /\ res.broad = "ok" /\ res.target \in res.broadIds
    /\ res.endpoint = registry[res.target].server_endpoint

\* C9: not found: get_server_endpoint of a name that was never registered
\* raises NotFound, and does so after both probes were run and neither held
\* the name; it returns no endpoint.
NotFoundAfterBothProbes ==
    (res.target \in Ids /\ res.target \notin DOMAIN registry)
        => /\ res.raised = "NotFound"
           /\ res.endpoint = NoEndpoint
           /\ res.narrow = "ok" /\ res.target \notin res.narrowIds
           /\ res.broad = "ok" /\ res.target \notin res.broadIds

\* C10: registry failures propagate typed: a get_server_endpoint call in
\* which a probe failed raises that probe's EmbeddingFailure or
\* StoreQueryFailure, and NotFound is raised only when both probes completed.
TypedProbeFailures ==
    /\ res.narrow \in ProbeFailures => res.raised = res.narrow
    /\ res.broad \in ProbeFailures => res.raised = res.broad
    /\ res.raised = "NotFound" => (res.narrow = "ok" /\ res.broad = "ok")

Count(log, step) == Cardinality({ k \in DOMAIN log : log[k] = step })

\* C14: the HTTP transport is stateless and one-shot: an invocation that
\* chose it and returned (the decoded body or a failure) has sent exactly one
\* request, to the endpoint stored for its target, has opened no stream or
\* session, and has closed its client.
HttpOneShot ==
    \A i \in Invs :
        (inv[i].pc = "done" /\ inv[i].transport = "http" /\ inv[i].cancelAt = "none")
            => /\ Count(inv[i].log, "post") = 1
               /\ inv[i].postedTo = inv[i].endpoint
               /\ inv[i].postedTo = registry[inv[i].target].server_endpoint
               /\ inv[i].client = "closed"
               /\ inv[i].stream = "none" /\ inv[i].session = "none"

\* The remote answered something that is not JSON; the client is closed.
HttpOneShotWitness ==
    \E i \in Invs :
        /\ inv[i].pc = "done"
        /\ inv[i].pending = "MalformedResponse"
        /\ inv[i].postedTo = EpHttp
        /\ inv[i].client = "closed"

\* The place of each remote action in the order of one invocation.
Rank(step) ==
    CASE step = "narrow" -> 1
      [] step = "broad" -> 2
      [] step \in {"stream_open", "post"} -> 3
      [] step \in {"session_enter", "client_close"} -> 4
      [] step = "initialize" -> 5
      [] step = "call_tool" -> 6
      [] step = "release_session" -> 7
      [] step = "release_stream" -> 8

\* C15: the steps of one invocation are strictly sequential: the searches of
\* the resolution come before any transport action, the stream is opened
\* before the session is entered and initialized, the handshake before the
\* call, the releases after all of them; no step is skipped or taken again,
\* and the tool is called only on a session whose handshake succeeded.
Sequential ==
    \A i \in Invs :
        LET r == inv[i]
            has(step) == Count(r.log, step) > 0
            transportSteps == Range(r.log) \ {"narrow", "broad"}
        IN  /\ \A a, b \in DOMAIN r.log : a < b => Rank(r.log[a]) < Rank(r.log[b])
            /\ transportSteps # {} => (has("narrow") /\ r.endpoint # NoEndpoint)
            /\ has("session_enter") => (has("stream_open") /\ r.stream # "none")
            /\ has("initialize") => (has("session_enter") /\ r.session # "none")
            /\ has("call_tool") => (has("initialize") /\ r.initialized)
            /\ (has("release_session") \/ has("release_stream"))
                  => r.pc \in {"sse_cleanup", "done"}
            /\ has("client_close") => has("post")

\* A streaming invocation that went through every state and succeeded.
SequentialWitness ==
    \E i \in Invs :
        /\ inv[i].pc = "done"
        /\ inv[i].result = "success"
        /\ inv[i].log = <<"narrow", "stream_open", "session_enter", "initialize",
                          "call_tool", "release_session", "release_stream">>

ReleaseSteps == {"release_session", "release_stream", "client_close"}

\* C16: no retries: no remote action is started twice, after the first
\* failure of an invocation only releases follow, a failed narrow search is
\* not followed by the broad one, and an invocation on the SSE transport
\* never posts over HTTP.
NoRetries ==
    \A i \in Invs :
        LET r == inv[i]
        IN  /\ \A a, b \in DOMAIN r.log : a # b => r.log[a] # r.log[b]
            /\ r.failedAt > 0 =>
                 \A k \in DOMAIN r.log : k > r.failedAt => r.log[k] \in ReleaseSteps
            /\ r.narrow \in ProbeFailures => (r.broad = "none" /\ r.log = <<"narrow">>)
            /\ r.pending \notin {"none", "success"} => r.failedAt > 0
            /\ r.transport = "sse" => (Count(r.log, "post") = 0 /\ r.client = "none")

\* The tool call failed on an open session: the two releases and nothing else
\* followed.
NoRetriesWitness ==
    \E i \in Invs :
        /\ inv[i].pc = "done"
        /\ inv[i].pending = "CallFailure"
        /\ inv[i].failedAt = 5
        /\ Len(inv[i].log) = 7

\* C19: when the endpoint resolution failed, exec_mcp_tool has returned the
\* error payload without any transport action: no stream, session or client,
\* no request sent.
ResolutionFailureNoTransport ==
    \A i \in Invs :
        (inv[i].target # "none" /\ inv[i].endpoint = NoEndpoint)
            => /\ inv[i].pc = "done" /\ inv[i].result = "error"
               /\ inv[i].transport = "none"
               /\ inv[i].stream = "none" /\ inv[i].session = "none"
               /\ inv[i].client = "none"
               /\ inv[i].postedTo = NoEndpoint
               /\ Range(inv[i].log) \subseteq {"narrow", "broad"}

\* The store query of the narrow search failed; nothing but that search ran.
ResolutionFailureNoTransportWitness ==
    \E i \in Invs :
        /\ inv[i].pc = "done"
        /\ inv[i].narrow = "StoreQueryFailure"
        /\ inv[i].result = "error"
        /\ inv[i].log = <<"narrow">>

\* What an invocation's own log says about its resources: a stream, session
\* or client is closed only by a release the invocation itself ran, and is
\* there only when the invocation itself opened it.
OwnResources ==
    \A i \in DOMAIN inv :
        LET r == inv[i]
            has(step) == Count(r.log, step) > 0
        IN  /\ r.stream # "none" => has("stream_open")
            /\ r.session # "none" => has("session_enter")
            /\ r.stream = "closed" => has("release_stream")
            /\ r.session = "closed" => has("release_session")
            /\ r.client = "closed" => has("client_close")
            /\ (r.pc \notin {"idle", "done"} /\ r.cancelAt = "none" /\ r.failedAt = 0
                  /\ r.pending = "none")
                 => /\ has("stream_open") => r.stream = "open"
                    /\ has("session_enter") => r.session = "open"

\* A step of one invocation leaves every other invocation, and the registry,
\* as they were.
StepOfOneInvocation ==
    /\ \A i, j \in DOMAIN inv : (inv'[i] # inv[i] /\ j # i) => inv'[j] = inv[j]
    /\ registry' = registry /\ others' = others

\* C17: in-flight invocations share no mutable state: under every
\* interleaving each step (a failure, a cancellation and a release included)
\* changes the stream, session, client and result of the one invocation that
\* takes it, and what happened to an invocation's resources is what its own
\* steps did.
Isolation == []OwnResources /\ [][StepOfOneInvocation]_vars

\* One invocation was cancelled and has released its stream and session while
\* the other one is still calling its tool on an open session.
IsolationWitness ==
    \E i, j \in DOMAIN inv :
        /\ i # j
        /\ inv[i].pc = "done" /\ inv[i].cancelAt = "body"
        /\ inv[i].stream = "closed" /\ inv[i].session = "closed"
        /\ inv[j].pc = "sse_call"
        /\ inv[j].stream = "open" /\ inv[j].session = "open"

\* C18: get_server_endpoint follows the two-probe algorithm: the narrow
\* search (the name, top 20) is always run first and its exact match is
\* returned; the broad search (empty query, top 100) is run only when the
\* narrow one answered without an exact match; no third search is made; an
\* endpoint is returned only for a result whose name equals the target, never
\* for another name that the search ranked near it.  With a store that
\* answers the top_k nearest documents, a registered name is in the narrow
\* answer of a collection of at most 20 documents and in the broad answer of a
\* collection of at most 100.
TwoProbes ==
    res.target # "none" =>
        LET total == Cardinality(DOMAIN registry) + others
            hitNarrow == res.narrow = "ok" /\ res.target \in res.narrowIds
            hitBroad == res.broad = "ok" /\ res.target \in res.broadIds
        IN  /\ res.narrow # "none"
            /\ (res.broad # "none") = (res.narrow = "ok" /\ ~hitNarrow)
            /\ (res.raised = "none") = (hitNarrow \/ hitBroad)
            /\ res.raised = "none" =>
                 /\ res.target \in DOMAIN registry
                 /\ res.endpoint = registry[res.target].server_endpoint
            /\ res.raised # "none" => res.endpoint = NoEndpoint
            /\ (res.narrow = "ok" /\ res.target \in DOMAIN registry /\ total <= 20)
                 => hitNarrow
            /\ (res.broad = "ok" /\ res.target \in DOMAIN registry /\ total <= 100)
                 => hitBroad

\* The narrow search answered with the other name only, the broad search
\* with the target: the target's own endpoint is returned, which is not the
\* endpoint of the other name.
TwoProbesWitness ==
    /\ res.target \in DOMAIN registry
    /\ res.narrow = "ok" /\ res.narrowIds = Ids \ {res.target}
    /\ res.broad = "ok" /\ res.target \in res.broadIds
    /\ res.raised = "none"
    /\ \A id \in Ids \ {res.target} :
         registry[id].server_endpoint # res.endpoint

\* One step of the discovery service: the documents change only in an
\* add_server that ended in success; an add_server that failed, and a
\* get_server_endpoint, leave them as they were.
FrameStep ==
    /\ (registry' # registry) =>
          /\ lastReg'.status = "success"
          /\ lastReg'.id \notin DOMAIN registry
          /\ DOMAIN registry' = DOMAIN registry \cup {lastReg'.id}
          /\ registry'[lastReg'.id] = lastReg'.fields
          /\ \A id \in DOMAIN registry : registry'[id] = registry[id]
    /\ (lastReg'.id # "none" /\ lastReg'.status # "success") =>
          (registry' = registry /\ others' = others)
    /\ res'.target # "none" => (registry' = registry /\ others' = others)

\* C20: a register call that fails leaves the registry unchanged (the
\* embedding comes before the write, so an embedding failure writes nothing),
\* searching and resolving never modify it, and the documents change only
\* through a register call that succeeds.
FailedRegisterFrame == [][FrameStep]_vars

\* A register call of a new name has just failed in the embedding, and the
\* name is not in the collection, which holds another document.
FailedRegisterFrameWitness ==
    /\ lastReg.fault = "embedding"
    /\ lastReg.status = "EmbeddingFailure"
    /\ lastReg.id \notin DOMAIN registry
    /\ DOMAIN registry # {}

\* C11: search_server rejects a top_k of zero or less as invalid input
\* before it asks for an embedding or queries the store.
TopKRejectedFirst ==
    (call.op = "search" /\ call.top_k <= 0)
        => /\ call.result = "error"
           /\ ~call.embedded
           /\ ~call.queried

\* C12: search_mcp_server and add_mcp_server always return a value: when the
\* embedding provider or the store fails, or a stored tools string is not
\* JSON, they return the payload {"error": message}; nothing is raised.
CallersNeverRaise ==
    call.op \in {"search", "register"}
        => /\ call.result \in {"payload", "error"}
           /\ (call.result = "payload") = (call.outcome = "success")
           /\ (call.result = "error") = (call.err # "none")
           /\ call.err \in {"none", call.outcome}

\* A search whose results hold a tools string that is not JSON has returned
\* the error payload.
CallersNeverRaiseWitness ==
    /\ call.op = "search"
    /\ call.outcome = "JSONDecodeError"
    /\ call.result = "error"
    /\ \E id \in DOMAIN registry : ~json_loads(registry[id].tools).ok

\* C13: startup is idempotent: the collection is created if and only if it
\* was not there (and is never lost), a startup that found it does not create
\* it, a startup that ends without an error holds a usable handle of an
\* existing collection, and a startup whose creation failed ends in
\* StoreInitFailure.
StartupIdempotent ==
    boot.status # "none" =>
        /\ boot.found => (boot.exists /\ ~boot.createOk)
        /\ boot.createOk => (~boot.found /\ boot.exists)
        /\ boot.status = "ok" =>
             /\ boot.exists
             /\ boot.handle = "usable"
             /\ boot.createOk = ~boot.found
        /\ (boot.createCalled /\ ~boot.createOk) => boot.status = "StoreInitFailure"

====
